---- MODULE Spec2Model ----
(***************************************************************************)
(* Model of asteroid/losses/mixit_wrapper.py: the MixITLossWrapper, its    *)
(* two partition enumerations, the per-element minimum and the             *)
(* reconstruction of the estimated mixtures.                               *)
(*                                                                         *)
(* A tensor of shape (batch, channels, time) is a record                   *)
(*   [b |-> batch, n |-> channels, t |-> time, v |-> data]                 *)
(* with v[bi][ci][ti] the sample (1-based here, 0-based in Python; source  *)
(* indices inside partitions keep Python's 0-based numbering).             *)
(***************************************************************************)
EXTENDS Integers, Sequences, FiniteSets, TLC

\* Bounds of the explored inputs.
MaxBatch == 2
MaxSrc == 4
MaxMix == 2
MaxLen == 2
MaxElems == 4

\* Sample amplitudes of the explored signals.
Vals == {0, 1}

\* Mode strings a caller may pass to the constructor: the two partition
\* modes, the permutation modes "pw_mtx" (pairwise; also the constructor's
\* default value), "perm_avg" (direct) and "pw_sinkpit" (relaxed), and a
\* string that names no strategy.
Modes == {"mix_it", "mix_it_gen", "pw_mtx", "perm_avg", "pw_sinkpit", "other"}

VARIABLES
    pit_from,      \* self.pit_from of the wrapper, NoMode while no wrapper exists
    raised,        \* exception raised by the last constructor call / current call
    pc,            \* position of the caller: new, idle, mix_it, mix_it_gen, reduce, done
    est_targets,   \* argument of the current call
    targets,       \* argument of the current call
    return_est,    \* argument of the current call
    parts,         \* candidate pool of the current call (<<>>: not enumerated)
    loss_set,      \* loss table of the current call, loss_set[b][i]
    loss_calls,    \* number of invocations of loss_func in the current call
    min_loss,      \* per batch element minimum loss
    min_loss_idx,  \* per batch element winning index (0-based)
    ret            \* value returned by the current call

vars == <<pit_from, raised, pc, est_targets, targets, return_est, parts,
          loss_set, loss_calls, min_loss, min_loss_idx, ret>>

NoMode == "<no wrapper>"
NoTensor == [b |-> 0, n |-> 0, t |-> 0, v |-> <<>>]
NoMean == [num |-> 0, den |-> 0]
NoRet == [kind |-> "nothing", mean_loss |-> NoMean, reordered |-> NoTensor]

----------------------------------------------------------------------------
\* Pure helpers

RECURSIVE SumSeq(_)
SumSeq(s) == IF s = <<>> THEN 0 ELSE Head(s) + SumSeq(Tail(s))

RECURSIVE Flatten(_)
Flatten(ss) == IF ss = <<>> THEN <<>> ELSE Head(ss) \o Flatten(Tail(ss))

InSeq(x, s) == \E i \in 1..Len(s) : s[i] = x

\* range(n)
Range(n) == [i \in 1..n |-> i - 1]

\* Variant of combinations: the subsequences without the head come first.
RECURSIVE combinations_tail_first(_, _)
combinations_tail_first(lst, r) ==
    IF r = 0 THEN << <<>> >>
    ELSE IF Len(lst) < r THEN <<>>
    ELSE LET h == Head(lst)
             withH == combinations_tail_first(Tail(lst), r - 1)
         IN  combinations_tail_first(Tail(lst), r)
             \o [i \in 1..Len(withH) |-> <<h>> \o withH[i]]

\* itertools.combinations(lst, r): the r-length subsequences of lst in
\* lexicographic order of positions.
RECURSIVE combinations(_, _)
combinations(lst, r) ==
    IF r = 0 THEN << <<>> >>
    ELSE IF Len(lst) < r THEN <<>>
    ELSE LET h == Head(lst)
             withH == combinations(Tail(lst), r - 1)
         IN  [i \in 1..Len(withH) |-> <<h>> \o withH[i]]
             \o combinations(Tail(lst), r)

\* Variant of rest_of: the chosen group is not removed from the pool.
rest_all(lst, c) == lst

\* rest = [x for x in lst if x not in c]
rest_of(lst, c) == SelectSeq(lst, LAMBDA x : ~InSeq(x, c))

\* Variant of parts_mixit: the first group always holds the first remaining
\* index, so each grouping is emitted once whatever the order of its groups.
RECURSIVE parts_mixit_unique(_, _, _)
parts_mixit_unique(lst, k, l) ==
    IF l = 0 THEN << <<>> >>
    ELSE LET cs == SelectSeq(combinations(lst, k),
                             LAMBDA c : lst = <<>> \/ InSeq(Head(lst), c))
             sub(c) == LET rs == parts_mixit_unique(rest_of(lst, c), k, l - 1)
                       IN  [j \in 1..Len(rs) |-> <<c>> \o rs[j]]
         IN  Flatten([i \in 1..Len(cs) |-> sub(cs[i])])

\* parts_mixit(lst, k, l): the recursive generator of best_part_mix_it.
RECURSIVE parts_mixit(_, _, _)
parts_mixit(lst, k, l) ==
    IF l = 0 THEN << <<>> >>
    ELSE LET cs == combinations(lst, k)
             sub(c) == LET rs == parts_mixit(rest_of(lst, c), k, l - 1)
                       IN  [j \in 1..Len(rs) |-> <<c>> \o rs[j]]
         IN  Flatten([i \in 1..Len(cs) |-> sub(cs[i])])

\* Variant of parts_mixit_gen: the subset sizes start at 1, so no candidate
\* has an empty first group.
parts_mixit_gen_nonempty(lst) ==
    Flatten([k1 \in 1..Len(lst) |->
                LET cs == combinations(lst, k1)
                IN  [i \in 1..Len(cs) |-> <<cs[i], rest_of(lst, cs[i])>>]])

\* parts_mixit_gen(lst) of best_part_mix_it_generalized.
parts_mixit_gen(lst) ==
    Flatten([k1 \in 1..(Len(lst) + 1) |->
                LET cs == combinations(lst, k1 - 1)
                IN  [i \in 1..Len(cs) |-> <<cs[i], rest_of(lst, cs[i])>>]])

----------------------------------------------------------------------------
\* Tensors

\* The explored signals of length T: constant amplitude over time.
Signals(T) == {[ti \in 1..T |-> a] : a \in Vals}

\* The explored tensors of shape (B, n, T).
Tensors(B, n, T) ==
    {[b |-> B, n |-> n, t |-> T, v |-> d] : d \in [1..B -> [1..n -> Signals(T)]]}

\* torch.sum(est_targets[b, indexes, :], axis=0): the sum of the channels
\* named by indexes; an empty list of indexes gives the all-zero signal.
sum_sources(rows, indexes, T) ==
    [ti \in 1..T |-> SumSeq([j \in 1..Len(indexes) |-> rows[indexes[j] + 1][ti]])]

\* torch.stack([torch.sum(est_targets[:, indexes, :], axis=1)
\*              for indexes in partition], axis=1)
est_mixes(est, partition) ==
    [bi \in 1..est.b |->
        [g \in 1..Len(partition) |-> sum_sources(est.v[bi], partition[g], est.t)]]

\* The caller-supplied loss_func(est_mixes, targets), returning one loss per
\* batch element: here the summed squared error of each element.
loss_func(mixes, tgt) ==
    [bi \in 1..Len(mixes) |->
        SumSeq([g \in 1..Len(mixes[bi]) |->
            SumSeq([ti \in 1..Len(mixes[bi][g]) |->
                (mixes[bi][g][ti] - tgt.v[bi][g][ti])
                  * (mixes[bi][g][ti] - tgt.v[bi][g][ti])])])]

\* loss_set after the candidate loop and torch.cat(loss_set, dim=1):
\* loss_set[b][i] is the loss of batch element b under candidate i.
loss_table(est, tgt, pool) ==
    [bi \in 1..est.b |->
        [i \in 1..Len(pool) |-> loss_func(est_mixes(est, pool[i]), tgt)[bi]]]

\* Variant of torch_min_index: the last occurrence of the minimum.
last_min_index(row) ==
    CHOOSE i \in 1..Len(row) :
        /\ \A j \in 1..Len(row) : row[i] <= row[j]
        /\ \A j \in (i + 1)..Len(row) : row[j] > row[i]

\* The index torch.min reports for a row: the position (1-based here) of the
\* first occurrence of the row's minimum.
torch_min_index(row) ==
    CHOOSE i \in 1..Len(row) :
        /\ \A j \in 1..Len(row) : row[i] <= row[j]
        /\ \A j \in 1..(i - 1) : row[j] > row[i]

\* Variant of torch_min: the first candidate for every element.
torch_min_first(table) ==
    [values  |-> [bi \in 1..Len(table) |-> table[bi][1]],
     indexes |-> [bi \in 1..Len(table) |-> 0]]

\* Variant of torch_min: the winner of the first element is applied to the
\* whole batch.
torch_min_shared(table) ==
    [values  |-> [bi \in 1..Len(table) |-> table[bi][torch_min_index(table[1])]],
     indexes |-> [bi \in 1..Len(table) |-> torch_min_index(table[1]) - 1]]

\* torch.min(loss_set, dim=1, keepdim=True)
torch_min(table) ==
    [values  |-> [bi \in 1..Len(table) |-> table[bi][torch_min_index(table[bi])]],
     indexes |-> [bi \in 1..Len(table) |-> torch_min_index(table[bi]) - 1]]

\* Variant of torch_mean: the sum over the batch, not divided.
torch_sum(losses) == [num |-> SumSeq(losses), den |-> 1]

\* torch.mean(min_loss), kept as the exact fraction sum / count.
torch_mean(losses) == [num |-> SumSeq(losses), den |-> Len(losses)]

\* Variant of right_partition: one shared candidate for the whole batch.
first_partition(pool, idx) == pool[1]

\* right_partition = parts[idx], idx the batch element's winning index
right_partition(pool, idx) == pool[idx + 1]

\* reorder_source(est_targets, targets, min_loss_idx, parts)
reorder_source(est, tgt, idxs, pool) ==
    [b |-> tgt.b, n |-> tgt.n, t |-> tgt.t,
     v |-> [bi \in 1..tgt.b |->
              IF bi <= Len(idxs)
              THEN LET rp == right_partition(pool, idxs[bi])
                   IN  [g \in 1..Len(rp) |-> sum_sources(est.v[bi], rp[g], est.t)]
              ELSE [g \in 1..tgt.n |-> [ti \in 1..tgt.t |-> 0]]]]

----------------------------------------------------------------------------
\* The wrapper

\* Variant of unsupported: the mode list of the permutation wrapper.
unsupported_pit(mode) == mode \notin {"mix_it", "mix_it_gen", "pw_mtx"}

\* self.pit_from not in ['mix_it', 'mix_it_gen']
unsupported(mode) == mode \notin {"mix_it", "mix_it_gen"}

\* __init__(loss_func, pit_from): the attribute is assigned, then checked;
\* when the check raises the caller gets no wrapper (pc stays "new").
Construct(mode) ==
    /\ pc = "new"
    /\ pit_from' = mode
    /\ IF unsupported(mode)
       THEN /\ raised' = "ValueError"
            /\ pc' = "new"
       ELSE /\ raised' = "none"
            /\ pc' = "idle"
    /\ UNCHANGED <<est_targets, targets, return_est, parts, loss_set,
                   loss_calls, min_loss, min_loss_idx, ret>>

\* Variant of same_shapes: only the batch size is compared.
same_batch(est, tgt) == est.b = tgt.b

\* assert est_targets.shape[0] == targets.shape[0]
\* assert est_targets.shape[2] == targets.shape[2]
same_shapes(est, tgt) == est.b = tgt.b /\ est.t = tgt.t

\* Variant of strategy: the elif branch is never taken.
strategy_first(mode) ==
    IF mode \in {"mix_it", "mix_it_gen"} THEN "mix_it" ELSE "done"

\* The if / elif / else of forward on self.pit_from: the search function the
\* call goes to ("done" for the else branch, which returns at once).
strategy(mode) ==
    IF mode = "mix_it" THEN "mix_it"
    ELSE IF mode = "mix_it_gen" THEN "mix_it_gen"
    ELSE "done"

\* forward(est_targets, targets, return_est): the input checks and the
\* dispatch on self.pit_from.
Forward(est, tgt, r) ==
    /\ pc = "idle"
    /\ est_targets' = est
    /\ targets' = tgt
    /\ return_est' = r
    /\ IF ~same_shapes(est, tgt)
       THEN /\ raised' = "AssertionError"
            /\ pc' = "done"
       ELSE /\ raised' = "none"
            /\ pc' = strategy(pit_from)
    /\ UNCHANGED <<pit_from, parts, loss_set, loss_calls, min_loss,
                   min_loss_idx, ret>>

\* The loop over the pool with its assertions, torch.cat and torch.min,
\* the same in the two searches: bad holds the positions of the candidates
\* that fail the loop's assertions.
Search(pool, bad) ==
        /\ parts' = pool
        /\ IF bad # {}
           THEN \* an assertion of the loop fails at the first bad candidate
                /\ raised' = "AssertionError"
                /\ loss_calls' = (CHOOSE i \in bad : \A j \in bad : i <= j) - 1
                /\ pc' = "done"
                /\ UNCHANGED <<loss_set, min_loss, min_loss_idx>>
           ELSE IF pool = <<>>
           THEN \* torch.cat of an empty list
                /\ raised' = "RuntimeError"
                /\ loss_calls' = 0
                /\ pc' = "done"
                /\ UNCHANGED <<loss_set, min_loss, min_loss_idx>>
           ELSE LET table == loss_table(est_targets, targets, pool)
                    best == torch_min(table)
                IN  /\ loss_set' = table
                    /\ loss_calls' = Len(pool)
                    /\ min_loss' = best.values
                    /\ min_loss_idx' = best.indexes
                    /\ pc' = "reduce"
                    /\ UNCHANGED raised

\* Variant of not_divisible: the operands exchanged.
not_divisible_swapped(nsrc, nmix) == nsrc # 0 /\ nmix % nsrc # 0

\* nsrc % nmix != 0 (nmix > 0)
not_divisible(nsrc, nmix) == nsrc % nmix # 0

\* best_part_mix_it(loss_func, est_targets, targets)
BestPartMixIt ==
    /\ pc = "mix_it"
    /\ LET nmix == targets.n
           nsrc == est_targets.n
       IN  IF nmix = 0
           THEN \* nsrc % nmix with nmix = 0
                /\ raised' = "ZeroDivisionError"
                /\ pc' = "done"
                /\ UNCHANGED <<parts, loss_set, loss_calls, min_loss, min_loss_idx>>
           ELSE IF not_divisible(nsrc, nmix)
           THEN /\ raised' = "ValueError"
                /\ pc' = "done"
                /\ UNCHANGED <<parts, loss_set, loss_calls, min_loss, min_loss_idx>>
           ELSE LET nsrcmix == nsrc \div nmix
                    pool == parts_mixit(Range(nsrc), nsrcmix, nmix)
                    \* assert len(partition[0]) == nsrcmix
                    \* assert len(partition) == nmix
                    bad == {i \in 1..Len(pool) :
                              ~ /\ Len(pool[i]) >= 1
                                /\ Len(pool[i][1]) = nsrcmix
                                /\ Len(pool[i]) = nmix}
                IN  Search(pool, bad)
    /\ UNCHANGED <<pit_from, est_targets, targets, return_est, ret>>

\* Variant of not_two_mixtures: fewer than two mixtures are let through.
more_than_two_mixtures(nmix) == nmix > 2

\* nmix != 2
not_two_mixtures(nmix) == nmix # 2

\* best_part_mix_it_generalized(loss_func, est_targets, targets)
BestPartMixItGeneralized ==
    /\ pc = "mix_it_gen"
    /\ LET nmix == targets.n
           nsrc == est_targets.n
       IN  IF not_two_mixtures(nmix)
           THEN /\ raised' = "ValueError"
                /\ pc' = "done"
                /\ UNCHANGED <<parts, loss_set, loss_calls, min_loss, min_loss_idx>>
           ELSE LET pool == parts_mixit_gen(Range(nsrc))
                    \* assert len(partition) == nmix
                    bad == {i \in 1..Len(pool) : Len(pool[i]) # nmix}
                IN  Search(pool, bad)
    /\ UNCHANGED <<pit_from, est_targets, targets, return_est, ret>>

\* Variant of Reduce: the reconstruction is written into the targets
\* (ordered = targets in place of torch.zeros_like(targets)).
Reduce_in_place ==
    /\ pc = "reduce"
    /\ LET mean_loss == torch_mean(min_loss)
           ordered == reorder_source(est_targets, targets, min_loss_idx, parts)
       IN  /\ ret' = IF ~return_est
                     THEN [kind |-> "loss", mean_loss |-> mean_loss,
                           reordered |-> NoTensor]
                     ELSE [kind |-> "pair", mean_loss |-> mean_loss,
                           reordered |-> ordered]
           /\ targets' = IF return_est THEN ordered ELSE targets
    /\ pc' = "done"
    /\ UNCHANGED <<pit_from, raised, est_targets, return_est, parts,
                   loss_set, loss_calls, min_loss, min_loss_idx>>

\* The end of forward: the mean over the batch, and the reconstruction when
\* return_est is set.
Reduce ==
    /\ pc = "reduce"
    /\ LET mean_loss == torch_mean(min_loss)
       IN  ret' = IF ~return_est
                  THEN [kind |-> "loss", mean_loss |-> mean_loss,
                        reordered |-> NoTensor]
                  ELSE [kind |-> "pair", mean_loss |-> mean_loss,
                        reordered |-> reorder_source(est_targets, targets,
                                                     min_loss_idx, parts)]
    /\ pc' = "done"
    /\ UNCHANGED <<pit_from, raised, est_targets, targets, return_est, parts,
                   loss_set, loss_calls, min_loss, min_loss_idx>>

\* The call is over: its arguments, locals and result are dropped and the
\* wrapper is ready for the next call.
Return ==
    /\ pc = "done"
    /\ pc' = "idle"
    /\ raised' = "none"
    /\ est_targets' = NoTensor
    /\ targets' = NoTensor
    /\ return_est' = FALSE
    /\ parts' = <<>>
    /\ loss_set' = <<>>
    /\ loss_calls' = 0
    /\ min_loss' = <<>>
    /\ min_loss_idx' = <<>>
    /\ ret' = NoRet
    /\ UNCHANGED pit_from

Init ==
    /\ pit_from = NoMode
    /\ raised = "none"
    /\ pc = "new"
    /\ est_targets = NoTensor
    /\ targets = NoTensor
    /\ return_est = FALSE
    /\ parts = <<>>
    /\ loss_set = <<>>
    /\ loss_calls = 0
    /\ min_loss = <<>>
    /\ min_loss_idx = <<>>
    /\ ret = NoRet

\* The explored shapes: at most MaxElems signals in a tensor.
EstShapes == {s \in (1..MaxBatch) \X (0..MaxSrc) \X (1..MaxLen) : s[1] * s[2] <= MaxElems}
TgtShapes == {s \in (1..MaxBatch) \X (0..MaxMix) \X (1..MaxLen) : s[1] * s[2] <= MaxElems}

\* Variant of default_pit_from: the default is a mode the check accepts.
default_mix_it == "mix_it"

\* The default of the parameter in __init__(self, loss_func, pit_from='pw_mtx').
default_pit_from == "pw_mtx"

\* A caller constructs the wrapper, with some mode string or without one.
Instantiate ==
    \/ \E mode \in Modes : Construct(mode)
    \/ Construct(default_pit_from)

\* A caller calls the wrapper with some estimates, targets and return_est.
Call ==
    /\ pc = "idle"
    /\ \E es \in EstShapes, ts \in TgtShapes :
         \E est \in Tensors(es[1], es[2], es[3]),
            tgt \in Tensors(ts[1], ts[2], ts[3]),
            r \in BOOLEAN : Forward(est, tgt, r)

Next ==
    \/ Instantiate
    \/ Call
    \/ BestPartMixIt
    \/ BestPartMixItGeneralized
    \/ Reduce
    \/ Return

Spec == Init /\ [][Next]_vars

----------------------------------------------------------------------------
\* Vocabulary of the properties

RECURSIVE Fact(_)
Fact(n) == IF n <= 0 THEN 1 ELSE n * Fact(n - 1)

RECURSIVE Pow(_, _)
Pow(x, n) == IF n <= 0 THEN 1 ELSE x * Pow(x, n - 1)

ToSet(s) == {s[i] : i \in 1..Len(s)}

\* The groups of a candidate as a set of index sets.
Grouping(p) == {ToSet(p[g]) : g \in 1..Len(p)}

\* The current call passed the input checks of forward.
ShapesAgree == est_targets.b = targets.b /\ est_targets.t = targets.t

\* A search function has run to its end (successfully or not).
AfterSearch == pc \in {"reduce", "done"}

\* A search function has returned its three results.
Searched == pc = "reduce" \/ (pc = "done" /\ ret.kind \in {"loss", "pair"})

\* Nothing was enumerated, evaluated or returned by the current call.
NothingProduced ==
    /\ parts = <<>>
    /\ loss_set = <<>>
    /\ loss_calls = 0
    /\ min_loss = <<>>
    /\ min_loss_idx = <<>>
    /\ ret = NoRet

\* p has m groups and every index of 0..k-1 occurs at exactly one place of
\* exactly one group.
ValidPartition(p, k, m) ==
    /\ Len(p) = m
    /\ \A g \in 1..Len(p) : \A j \in 1..Len(p[g]) : p[g][j] \in 0..(k - 1)
    /\ \A x \in 0..(k - 1) :
         Cardinality(UNION {{<<g, j>> : j \in {l \in 1..Len(p[g]) : p[g][l] = x}} :
                              g \in 1..Len(p)}) = 1

\* The loss of batch element b under candidate i of the pool, from the
\* arguments of the call.
CandidateLoss(b, i) == loss_func(est_mixes(est_targets, parts[i]), targets)[b]

----------------------------------------------------------------------------
\* C1: for every (k, m) with m >= 1 and k % m = 0 the 'mix_it' enumeration
\* produces exactly k!/((k/m)!^m * m!) candidates, and for k = 4, m = 2 exactly
\* the three candidates {{0,1},{2,3}}, {{0,2},{1,3}}, {{0,3},{1,2}}.  (Stated
\* for k >= 1, where the claimed count is a whole number.)
C1_EqualPartitionCount ==
    (pit_from = "mix_it" /\ AfterSearch /\ parts # <<>> /\ est_targets.n >= 1) =>
        LET k == est_targets.n
            m == targets.n
        IN  /\ Len(parts) * Pow(Fact(k \div m), m) * Fact(m) = Fact(k)
            /\ (k = 4 /\ m = 2) =>
                 /\ Len(parts) = 3
                 /\ {Grouping(parts[i]) : i \in 1..Len(parts)} =
                      {{{0, 1}, {2, 3}}, {{0, 2}, {1, 3}}, {{0, 3}, {1, 2}}}

\* C2: every candidate of either enumeration is a valid partition of
\* {0..k-1}: m groups, pairwise disjoint, every index in exactly one group;
\* in 'mix_it' mode every group has k/m indices; and no assertion of the
\* candidate loop fails once the pool is enumerated.
C2_ValidPartitions ==
    (AfterSearch /\ ShapesAgree
       /\ (pit_from = "mix_it" => targets.n >= 1 /\ est_targets.n % targets.n = 0)
       /\ (pit_from = "mix_it_gen" => targets.n = 2)) =>
        /\ raised = "none"
        /\ parts # <<>>
        /\ \A i \in 1..Len(parts) :
             /\ ValidPartition(parts[i], est_targets.n, targets.n)
             /\ pit_from = "mix_it" =>
                  \A g \in 1..Len(parts[i]) :
                      Len(parts[i][g]) * targets.n = est_targets.n

C2_Witness ==
    /\ pc = "done"
    /\ pit_from = "mix_it"
    /\ est_targets.n = 4
    /\ targets.n = 2
    /\ Len(parts) > 1
    /\ ret.kind = "loss"

\* C3: for every k the 'mix_it_gen' enumeration produces exactly 2^k
\* candidates, one per subset S of {0..k-1} as first group with its
\* complement as second group, ordered by increasing subset size; the pool
\* holds (empty, all) and (all, empty), and a candidate with an empty group
\* is evaluated, its empty group summing to the all-zero mixture.
C3_GeneralizedPool ==
    (pit_from = "mix_it_gen" /\ AfterSearch /\ ShapesAgree /\ targets.n = 2) =>
        LET k == est_targets.n
            all == 0..(k - 1)
        IN  /\ Len(parts) = Pow(2, k)
            /\ \A S \in SUBSET all :
                 Cardinality({i \in 1..Len(parts) :
                                /\ Len(parts[i]) = 2
                                /\ ToSet(parts[i][1]) = S
                                /\ ToSet(parts[i][2]) = all \ S
                                /\ Len(parts[i][1]) = Cardinality(S)
                                /\ Len(parts[i][2]) = k - Cardinality(S)}) = 1
            /\ \A i \in 1..(Len(parts) - 1) :
                 Len(parts[i][1]) <= Len(parts[i + 1][1])
            /\ parts[1] = <<<<>>, Range(k)>>
            /\ parts[Len(parts)] = <<Range(k), <<>>>>
            /\ loss_calls = Pow(2, k)
            /\ raised = "none"
            /\ \A b \in 1..est_targets.b :
                 /\ Len(loss_set[b]) = Pow(2, k)
                 \* the candidate (empty, all): zero against the first target
                 /\ loss_set[b][1] =
                      SumSeq([ti \in 1..targets.t |->
                         targets.v[b][1][ti] * targets.v[b][1][ti]
                         + (SumSeq([s \in 1..k |-> est_targets.v[b][s][ti]])
                              - targets.v[b][2][ti])
                           * (SumSeq([s \in 1..k |-> est_targets.v[b][s][ti]])
                              - targets.v[b][2][ti])])

C3_Witness ==
    /\ pc = "done"
    /\ pit_from = "mix_it_gen"
    /\ est_targets.n = 3
    /\ Len(parts) = 8
    /\ ret.kind = "loss"
    \* the silent first group wins for the element
    /\ min_loss_idx[1] = 0
    /\ \E i \in 2..Len(parts) : loss_set[1][i] > loss_set[1][1]

\* C4: for every batch element the reported minimum loss is the loss of the
\* element's winning candidate and is at most the loss of every candidate of
\* the pool; the winning index is chosen per element.
C4_MinimumPerElement ==
    Searched =>
        /\ Len(min_loss) = est_targets.b
        /\ Len(min_loss_idx) = est_targets.b
        /\ \A b \in 1..est_targets.b :
             /\ min_loss_idx[b] \in 0..(Len(parts) - 1)
             /\ min_loss[b] = CandidateLoss(b, min_loss_idx[b] + 1)
             /\ \A i \in 1..Len(parts) : min_loss[b] <= CandidateLoss(b, i)

C4_Witness ==
    /\ pc = "done"
    /\ ret.kind = "loss"
    /\ est_targets.b = 2
    /\ min_loss_idx[1] # min_loss_idx[2]
    /\ min_loss[1] < CandidateLoss(1, min_loss_idx[2] + 1)
    /\ min_loss[2] < CandidateLoss(2, min_loss_idx[1] + 1)

\* C5: when a batch element's row of the loss table attains its minimum at
\* several candidate indices, the winning index is the first of them.
C5_FirstMinimumWins ==
    Searched =>
        \A b \in 1..Len(loss_set) :
            \A j \in 1..Len(loss_set[b]) :
                (\A i \in 1..Len(loss_set[b]) : loss_set[b][j] <= loss_set[b][i])
                    => min_loss_idx[b] + 1 <= j

C5_Witness ==
    /\ pc = "done"
    /\ ret.kind = "loss"
    /\ \E b \in 1..Len(loss_set) :
         \E i, j \in 1..Len(loss_set[b]) :
            /\ 1 < i
            /\ i < j
            /\ loss_set[b][i] = loss_set[b][j]
            /\ loss_set[b][1] > loss_set[b][i]
            /\ \A l \in 1..Len(loss_set[b]) : loss_set[b][i] <= loss_set[b][l]
            /\ min_loss_idx[b] = i - 1

\* C6: when reconstruction is requested, the reconstructed entry of batch
\* element b is, group by group, the sum of b's estimates over the groups of
\* b's winning candidate (the grouped tensor the evaluator scored for that
\* candidate), and the loss function applied to the reconstruction and the
\* targets gives every element its reported minimum loss.
C6_ReconstructionRoundTrip ==
    (pc = "done" /\ ret.kind = "pair") =>
        /\ ret.reordered.b = targets.b
        /\ ret.reordered.n = targets.n
        /\ ret.reordered.t = targets.t
        /\ \A b \in 1..est_targets.b :
             /\ ret.reordered.v[b] =
                  est_mixes(est_targets, parts[min_loss_idx[b] + 1])[b]
             /\ loss_func(ret.reordered.v, targets)[b] = min_loss[b]

C6_Witness ==
    /\ pc = "done"
    /\ ret.kind = "pair"
    /\ est_targets.b = 2
    /\ min_loss_idx[1] # 0
    /\ min_loss_idx[2] # min_loss_idx[1]
    /\ ret.reordered.v[1] # est_mixes(est_targets, parts[1])[1]
    /\ ret.reordered.v[1] # ret.reordered.v[2]

\* C7: constructing the wrapper with a mode string that is not a recognized
\* mode fails with ValueError at construction, so no wrapper with an
\* unrecognized mode exists and no call is made on one.
C7_UnrecognizedModeRejected ==
    /\ (pit_from \notin {NoMode, "mix_it", "mix_it_gen"}) =>
          /\ pc = "new"
          /\ raised = "ValueError"
          /\ est_targets = NoTensor
          /\ targets = NoTensor
          /\ NothingProduced
    /\ (pc # "new") => pit_from \in {"mix_it", "mix_it_gen"}

C7_Witness ==
    /\ pc = "new"
    /\ pit_from = "perm_avg"
    /\ raised = "ValueError"

\* C8: in 'mix_it' mode a call whose number of estimated sources k is not
\* divisible by the number of mixtures m (m >= 1) fails with ValueError
\* before any candidate is enumerated and before the loss function is
\* invoked, and returns neither a loss nor a reconstruction.
C8_IndivisibleRejected ==
    (pit_from = "mix_it" /\ AfterSearch /\ ShapesAgree
       /\ targets.n >= 1 /\ est_targets.n % targets.n # 0) =>
        /\ pc = "done"
        /\ raised = "ValueError"
        /\ NothingProduced

C8_Witness ==
    /\ pit_from = "mix_it"
    /\ pc = "done"
    /\ ShapesAgree
    /\ est_targets.n = 3
    /\ targets.n = 2
    /\ raised = "ValueError"
    /\ return_est

\* C9: in 'mix_it_gen' mode a call whose targets hold a number of mixtures
\* other than 2 fails with ValueError for every k, before the loss function
\* is invoked and without returning anything; with two mixtures the call is
\* accepted for every k, odd k included.
C9_TwoMixturesOnly ==
    (pit_from = "mix_it_gen" /\ AfterSearch /\ ShapesAgree) =>
        IF targets.n # 2
        THEN /\ pc = "done"
             /\ raised = "ValueError"
             /\ NothingProduced
        ELSE /\ raised = "none"
             /\ loss_calls = Len(parts)
             /\ loss_calls >= 1
             /\ Len(min_loss) = est_targets.b
             /\ pc = "done" => ret.kind = (IF return_est THEN "pair" ELSE "loss")

C9_Witness ==
    /\ pit_from = "mix_it_gen"
    /\ pc = "done"
    /\ ShapesAgree
    /\ targets.n = 1
    /\ est_targets.n = 2
    /\ raised = "ValueError"

\* C10: a call whose estimates and targets differ in batch size or in signal
\* length fails at once with AssertionError: before the mode-specific
\* checks, before any candidate is enumerated and before the loss function
\* is invoked, and nothing is returned.
C10_ShapeMismatchRejected ==
    (pc \notin {"new", "idle"} /\ ~ShapesAgree) =>
        /\ pc = "done"
        /\ raised = "AssertionError"
        /\ NothingProduced

C10_Witness ==
    /\ pc = "done"
    /\ raised = "AssertionError"
    /\ est_targets.b = targets.b
    /\ est_targets.t # targets.t
    \* a call the mode-specific check would reject as well
    /\ pit_from = "mix_it_gen"
    /\ targets.n # 2

\* The strategies of the enumerated mode set, by their mode strings.
PermutationModes == {"pw_mtx", "perm_avg", "pw_sinkpit"}
PartitionModes == {"mix_it", "mix_it_gen"}

\* C11 as stated: the constructor accepts every strategy of the enumerated
\* mode set (the three permutation strategies and the two partition
\* strategies); only a mode outside the set is rejected.
C11_AllStrategiesAccepted ==
    (pc = "new" /\ raised = "ValueError") =>
        pit_from \notin PermutationModes \cup PartitionModes

\* C11 as amended: the constructor accepts exactly the two partition
\* strategies 'mix_it' and 'mix_it_gen'; every other mode, the three
\* permutation strategies included, is rejected with ValueError; and a call
\* on a wrapper built with a partition strategy goes to that strategy's
\* search (equal groups of k/m for 'mix_it', the 2^k splits for
\* 'mix_it_gen').
C11_PartitionStrategiesOnly ==
    /\ (pc = "new" /\ raised = "ValueError") => pit_from \notin PartitionModes
    /\ (pc = "new" /\ raised = "none") => pit_from = NoMode
    /\ (pc # "new") => pit_from \in PartitionModes
    /\ pit_from \in PermutationModes => (pc = "new" /\ raised = "ValueError")
    /\ pc \in {"mix_it", "mix_it_gen"} => pc = pit_from
    /\ (AfterSearch /\ ShapesAgree /\ pit_from = "mix_it"
          /\ targets.n >= 1 /\ est_targets.n % targets.n = 0) =>
            /\ parts # <<>>
            /\ \A i \in 1..Len(parts) : \A g \in 1..Len(parts[i]) :
                  Len(parts[i][g]) * targets.n = est_targets.n
    /\ (AfterSearch /\ ShapesAgree /\ pit_from = "mix_it_gen" /\ targets.n = 2) =>
            /\ Len(parts) = Pow(2, est_targets.n)
            /\ raised = "none"

C11_Witness ==
    /\ pit_from = "mix_it_gen"
    /\ pc = "done"
    /\ ret.kind = "loss"
    /\ est_targets.n = 3
    /\ Len(parts) = 8

\* The least loss of batch element b over the pool, from the arguments of
\* the call.
LeastLoss(b) ==
    CHOOSE x \in {CandidateLoss(b, i) : i \in 1..Len(parts)} :
        \A i \in 1..Len(parts) : x <= CandidateLoss(b, i)

\* C12: a successful call returns the scalar loss alone when reconstruction
\* is not requested and the pair (scalar loss, reconstruction) when it is;
\* the scalar loss is the mean over the batch of the per-element minimum
\* losses, a value fixed by the estimates, the targets and the mode whatever
\* return_est is; the reconstruction has the shape of the target batch: one
\* entry per batch element, m grouped signals per entry, each of the
\* targets' signal length.
C12_ReturnValue ==
    (pc = "done" /\ raised = "none") =>
        /\ ret.kind = (IF return_est THEN "pair" ELSE "loss")
        /\ ret.mean_loss.den = est_targets.b
        /\ ret.mean_loss.num = SumSeq([b \in 1..est_targets.b |-> LeastLoss(b)])
        /\ ret.mean_loss.num = SumSeq(min_loss)
        /\ ~return_est => ret.reordered = NoTensor
        /\ return_est =>
             /\ ret.reordered.b = targets.b
             /\ ret.reordered.n = targets.n
             /\ ret.reordered.t = targets.t
             /\ Len(ret.reordered.v) = targets.b
             /\ \A b \in 1..targets.b :
                  /\ Len(ret.reordered.v[b]) = targets.n
                  /\ \A g \in 1..targets.n :
                       Len(ret.reordered.v[b][g]) = targets.t

C12_Witness ==
    /\ pc = "done"
    /\ raised = "none"
    /\ ret.kind = "pair"
    /\ est_targets.b = 2
    /\ targets.t = 2
    /\ min_loss[1] # min_loss[2]
    /\ ret.mean_loss.num = min_loss[1] + min_loss[2]
    /\ ret.mean_loss.den = 2

\* The calls that differ from the current one only in the estimates and
\* targets of the batch elements other than b.
Replaced(x, b, d) ==
    [x EXCEPT !.v = [bi \in 1..x.b |-> IF bi = b THEN x.v[b] ELSE d[bi]]]

SameAt(b) ==
    {<<Replaced(est_targets, b, d), Replaced(targets, b, e)>> :
        d \in [(1..est_targets.b) \ {b} -> [1..est_targets.n -> Signals(est_targets.t)]],
        e \in [(1..targets.b) \ {b} -> [1..targets.n -> Signals(targets.t)]]}

\* C13: with a loss function that scores each batch element from that
\* element's data only, the winning index, the minimum loss and the
\* reconstructed entry of batch element b depend only on b's estimates and
\* targets: replacing the estimates or targets of the other elements of the
\* call leaves them unchanged.
C13_BatchIndependence ==
    (pc = "done" /\ ret.kind \in {"loss", "pair"} /\ est_targets.b >= 2) =>
        \A b \in 1..est_targets.b :
            \A c \in SameAt(b) :
                \A best \in {torch_min(loss_table(c[1], c[2], parts))} :
                    /\ best.indexes[b] = min_loss_idx[b]
                    /\ best.values[b] = min_loss[b]
                    /\ ret.kind = "pair" =>
                         reorder_source(c[1], c[2], best.indexes, parts).v[b]
                           = ret.reordered.v[b]

C13_Witness ==
    /\ pc = "done"
    /\ ret.kind = "pair"
    /\ est_targets.b = 2
    /\ min_loss_idx[1] # min_loss_idx[2]
    \* replacing the second element changes the second element's winner and
    \* reconstruction
    /\ \E c \in SameAt(1) :
         LET best == torch_min(loss_table(c[1], c[2], parts))
         IN  /\ best.indexes[2] # min_loss_idx[2]
             /\ reorder_source(c[1], c[2], best.indexes, parts).v[2]
                  # ret.reordered.v[2]

\* The indices of a set in ascending order.
Ascending(S) ==
    CHOOSE q \in [1..Cardinality(S) -> S] :
        \A i \in 1..(Cardinality(S) - 1) : q[i] < q[i + 1]

\* a comes before b in lexicographic order (sequences of numbers).
LexLess(a, b) ==
    \E i \in 1..Len(a) :
        /\ i <= Len(b)
        /\ a[i] < b[i]
        /\ \A j \in 1..(i - 1) : a[j] = b[j]

\* The candidates of a shape, from (mode, k, m) alone: for 'mix_it' the
\* lists of m pairwise disjoint ascending groups of k/m indices, for
\* 'mix_it_gen' the pairs (ascending subset, ascending complement).
CandidatesOf(mode, k, m) ==
    LET all == 0..(k - 1)
    IN  IF mode = "mix_it"
        THEN LET groups == {Ascending(S) : S \in {X \in SUBSET all :
                                                    Cardinality(X) * m = k}}
             IN  {p \in [1..m -> groups] :
                     \A g, h \in 1..m : g # h => ToSet(p[g]) \cap ToSet(p[h]) = {}}
        ELSE {<<Ascending(S), Ascending(all \ S)>> : S \in SUBSET all}

\* p comes before q in the order of the pool, an order on candidates that
\* reads nothing but the candidates: lexicographic on the concatenated
\* groups for 'mix_it'; by size of the first group, then lexicographic on
\* it, for 'mix_it_gen'.
Before(mode, p, q) ==
    IF mode = "mix_it"
    THEN LexLess(Flatten(p), Flatten(q))
    ELSE \/ Len(p[1]) < Len(q[1])
         \/ Len(p[1]) = Len(q[1]) /\ LexLess(p[1], q[1])

\* C14: the candidate pool and its order are a function of the shape (k, m)
\* and the mode only, whatever the signal values and the batch size: the
\* pool is the strictly ordered list of the candidates of (mode, k, m); and
\* the list the reconstruction indexes is the list, in the same order, whose
\* candidates are the columns of the call's loss table.
C14_PoolDeterminedByShape ==
    (AfterSearch /\ parts # <<>>) =>
        /\ ToSet(parts) = CandidatesOf(pit_from, est_targets.n, targets.n)
        /\ \A i \in 1..(Len(parts) - 1) : Before(pit_from, parts[i], parts[i + 1])
        /\ Searched =>
             \A b \in 1..est_targets.b :
                /\ Len(loss_set[b]) = Len(parts)
                /\ \A i \in 1..Len(parts) : loss_set[b][i] = CandidateLoss(b, i)
        /\ (pc = "done" /\ ret.kind = "pair") =>
             \A b \in 1..est_targets.b :
                \E i \in 1..Len(parts) :
                   /\ i = min_loss_idx[b] + 1
                   /\ loss_set[b][i] = min_loss[b]
                   /\ ret.reordered.v[b] = est_mixes(est_targets, parts[i])[b]

C14_Witness ==
    /\ pc = "done"
    /\ ret.kind = "pair"
    /\ pit_from = "mix_it"
    /\ est_targets.n = 4
    /\ targets.n = 2
    /\ Len(parts) = 6
    /\ est_targets.v[1][1] # est_targets.v[1][2]
    /\ min_loss_idx[1] >= 3

\* No call is in progress and nothing of an earlier call is left.
Fresh ==
    /\ raised = "none"
    /\ est_targets = NoTensor
    /\ targets = NoTensor
    /\ return_est = FALSE
    /\ NothingProduced

\* C15: a call changes nothing outside its return value: from the moment
\* they are passed until the call is over, whether it returns or raises, the
\* estimates and the targets hold the same values; the wrapper's mode never
\* changes once the wrapper exists; and when a call is over the wrapper is
\* in the state it had before its first call, so every call of a sequence
\* runs as a first call would.
C15_CallChangesNothing ==
    [][ /\ pc # "new" => pit_from' = pit_from
        /\ pc \in {"mix_it", "mix_it_gen", "reduce"} =>
              /\ est_targets' = est_targets
              /\ targets' = targets
              /\ return_est' = return_est
        /\ pc = "done" => (pc' = "idle" /\ Fresh')
        /\ pc = "idle" => Fresh
      ]_vars

C15_Witness ==
    /\ pc = "done"
    /\ raised = "none"
    /\ ret.kind = "pair"
    /\ targets.n = 2
    /\ est_targets.n = 3
    /\ ret.reordered.v # targets.v

\* p comes before q, comparing the lists group by group.
GroupListLess(p, q) ==
    \E g \in 1..Len(p) :
        /\ LexLess(p[g], q[g])
        /\ \A h \in 1..(g - 1) : p[h] = q[h]

\* The candidate p with its groups assigned to the targets in the order f.
Regrouped(p, f) == [g \in 1..Len(p) |-> p[f[g]]]

FellThrough == pc = "done" /\ raised = "none" /\ ret = NoRet

\* C17: the default mode of the constructor is not a mode it accepts, so
\* constructing without a mode ends in ValueError and leaves no wrapper;
\* every wrapper that can be called has mode 'mix_it' or 'mix_it_gen'; and
\* no call ends in the branch of forward that returns nothing.
C17_DefaultModeRejected ==
    /\ unsupported(default_pit_from)
    /\ pit_from = default_pit_from =>
          /\ pc = "new"
          /\ raised = "ValueError"
    /\ pc \in {"idle", "mix_it", "mix_it_gen", "reduce", "done"} =>
          /\ pit_from \in PartitionModes
          /\ pit_from # default_pit_from
    /\ ~FellThrough

C17_Witness ==
    /\ pit_from = default_pit_from
    /\ pit_from = "pw_mtx"
    /\ pc = "new"
    /\ raised = "ValueError"
    /\ ret = NoRet

====
